---- MODULE Spec2Model ----
(***************************************************************************)
(* EcoHarvest: the order ledger (order-service), the payment ledger        *)
(* (payment-service, mock gateway) and the product/inventory ledger        *)
(* (product-service), each modelled as the collection its mongoose model   *)
(* stores plus one action per HTTP handler that writes to it.              *)
(***************************************************************************)
EXTENDS Integers, Sequences, FiniteSets, TLC

(* ---------------------------- bounds ---------------------------------- *)
\* number of committed writes in one behaviour (each write stamps a Date)
MaxWrites == 3
\* number of order documents
MaxOrders == 2
\* number of payment documents
MaxPayments == 2
\* number of product documents
MaxProducts == 1
\* number of clients with an inventory request in flight at the same time
MaxClients == 2
\* number of facts other services publish on the exchange
MaxFacts == 2
\* number of deliveries one queue makes to its consumer
MaxDeliveries == 3
\* number of times the customer presses the checkout button
MaxCheckouts == 2
\* largest quantity of one product in the cart
MaxCartQuantity == 2
\* number of connections the shared client makes
MaxConnections == 2

(* ------------------------ program constants --------------------------- *)
\* a field the request body or the document does not carry
Undefined == "undefined"
\* a Date field that was never set
NoDate == 0
\* a Number field that was never set / a missing numeric body field
NoAmount == -1
\* 18% GST, in percent
TaxRatePercent == 18
\* free shipping strictly above this subtotal
FreeShippingThreshold == 500
\* flat shipping fee otherwise
ShippingFee == 50
\* productSchema.lowStockThreshold default
DefaultLowStockThreshold == 10

\* orderSchema.status enum
OrderStatuses ==
    {"Pending", "Pending Payment", "Confirmed", "Processing", "Shipped",
     "Out for Delivery", "Delivered", "Cancelled", "Refunded"}

\* orderSchema.paymentMethod enum
OrderPaymentMethods == {"cod", "card", "upi", "netbanking", "wallet"}

\* paymentSchema.status enum
PaymentStatuses ==
    {"initiated", "processing", "completed", "failed", "refunded", "cancelled"}

\* paymentSchema.method enum
PaymentMethodEnum == {"card", "upi", "netbanking", "wallet", "cod"}

(* ------------------------- request inputs ----------------------------- *)
Item(q, p, s) == [productId |-> "p1", quantity |-> q, price |-> p, subtotal |-> s]

\* POST /orders bodies: one cart with every accepted method (an absent
\* paymentMethod defaults to 'cod'), the empty and the large cart, and one
\* body per validation fault
CreateOrderBodies ==
    { [customerId |-> "u1", items |-> << Item(1, 100, 25) >>,
       paymentMethod |-> m, address |-> "valid"] :
        m \in OrderPaymentMethods \cup {Undefined} }
    \cup
    { [customerId |-> "u1", items |-> << >>,
       paymentMethod |-> "cod", address |-> "valid"],
      [customerId |-> "u1", items |-> << Item(3, 100, 300), Item(1, 300, 300) >>,
       paymentMethod |-> "card", address |-> "valid"],
      [customerId |-> Undefined, items |-> << Item(1, 100, 25) >>,
       paymentMethod |-> "cod", address |-> "valid"],
      [customerId |-> "u1", items |-> << Item(0, 100, 0) >>,
       paymentMethod |-> "cod", address |-> "valid"],
      [customerId |-> "u1", items |-> << Item(1, 100, 25) >>,
       paymentMethod |-> "paypal", address |-> "valid"],
      [customerId |-> "u1", items |-> << Item(1, 100, 25) >>,
       paymentMethod |-> "card", address |-> "malformed"] }

StatusInputs == OrderStatuses \cup {"Bogus"}
\* {trackingNumber, carrier} of a status update
ShipmentInputs == {<<Undefined, Undefined>>, <<"TRK1", "DHL">>}
ReasonInputs == {"changed my mind"}

\* POST /initiate bodies: the valid ones and one body per validation fault
InitiateBodies ==
    { [orderId |-> "o1", userId |-> "u1", amount |-> 80, method |-> "card"],
      [orderId |-> "o2", userId |-> "u1", amount |-> 900, method |-> "card"],
      [orderId |-> Undefined, userId |-> "u1", amount |-> 80, method |-> "card"],
      [orderId |-> "o1", userId |-> Undefined, amount |-> 80, method |-> "card"],
      [orderId |-> "o1", userId |-> "u1", amount |-> NoAmount, method |-> "card"],
      [orderId |-> "o1", userId |-> "u1", amount |-> 80, method |-> "paypal"] }

\* POST /products bodies (name, description, category, vendorId present):
\* out of stock, in stock just above the low-stock threshold, and one body
\* per validation fault
CreateProductBodies ==
    { [price |-> 100, quantity |-> 0],
      [price |-> 100, quantity |-> 11],
      [price |-> -5, quantity |-> 11],
      [price |-> 100, quantity |-> -1] }

\* PUT /products/:id bodies, handed whole to $set
UpdateProductBodies ==
    { [price |-> 120], [price |-> -5], [quantity |-> 0] }

InventoryOperationInputs == {Undefined, "increment", "decrement"}
InventoryQuantityInputs == {1, 12}

EvidenceInputs == {Undefined, "ev1"}
RefundAmountInputs == {NoAmount, 50, 900}

VARIABLES
    orders,     \* the orders collection: sequence of order documents, _id = index
    payments,   \* the payments collection: sequence of payment documents, paymentId = index
    orderNow,   \* the value the next new Date() returns in order-service
    paymentNow, \* the value the next new Date() returns in payment-service
    productNow, \* the value the next new Date() returns in product-service
    txnSeq,     \* number of uuidv4() transaction ids drawn so far
    response,   \* the HTTP response on its way to the client: [op, id, code]
    products,   \* the products collection: sequence of product documents, _id = index
    channel,    \* product-service messaging: "null" until connected, then "open"
    published   \* the facts handed to channel.publish, in order (of the three
                \* ledgers only product-service has a publisher)

VARIABLES
    ready,      \* the broker's queues: queue name -> messages waiting for delivery
    deliveries, \* queue name -> the deliveries made to its consumer callback, in order
    answers,    \* client -> its inventory request: [state: "idle", "pending", "updated"
                \* (database write done) or "answered", code: the HTTP status,
                \* quantity: that of the document the write returned]
    facts       \* the facts other services published on the exchange, in order

VARIABLES
    cancelling, \* client -> its cancel request: [state: "idle", "read" (findById
                \* answered and the check passed, save not yet issued) or
                \* "answered", id, reason, t: the new Date() of the handler, code]
    checkout,   \* the checkout page: its payment method, the handler's position,
                \* the ids it holds and the toast it last showed
    calls,      \* the requests handleCheckout sent and the answers it got, in order
    cart,       \* cart-service: products of the customer's Cart document
    receipts,   \* the receipts created, in order: [paymentId]
    cache,      \* cart-service Redis key cart:<userId>: [present, products]
    gets,       \* client -> its GET cart request: [state: "idle", "missed"
                \* (redis.get answered null), "read" (Cart.findOne answered) or
                \* "answered", products: those read or answered]
    client,     \* the shared RabbitMQ instance: connected, open (its connection
                \* is up), channel (0 for null, else the number of the connection
                \* it was created on), connections made, reconnect timers
                \* pending, closed (close() has returned)
    consumers   \* queue -> the channel its consumer was registered on, 0 for none

vars == <<orders, orderNow, payments, paymentNow, txnSeq, response,
          products, productNow, channel, published,
          ready, deliveries, answers, facts,
          cancelling, checkout, calls, cart, receipts, cache, gets,
          client, consumers>>
flowVars == <<cancelling, checkout, calls, cart, receipts, cache, gets,
              client, consumers>>
clientVars == <<client, consumers>>
cacheVars == <<cache, gets>>
brokerVars == <<ready, deliveries, answers, facts>>
orderVars == <<orders, orderNow>>
paymentVars == <<payments, paymentNow, txnSeq>>
productVars == <<products, productNow, channel, published>>

\* writes committed so far: every write advances its service's clock
Writes == (orderNow - 1) + (paymentNow - 1) + (productNow - 1)

(* --------------------------- order ledger ------------------------------ *)
RECURSIVE SumSubtotals(_)
\* items.reduce((sum, item) => sum + item.subtotal, 0)
SumSubtotals(items) ==
    IF items = << >> THEN 0
    ELSE Head(items).subtotal + SumSubtotals(Tail(items))

\* Math.round(x / 100) for an integer x: nearest integer, halves upward
RoundDiv100(x) == (x + 50) \div 100

\* subtotal > 500 ? 0 : 50
ShippingCostOf(subtotal) ==
    IF subtotal > FreeShippingThreshold THEN 0 ELSE ShippingFee

\* Math.round(subtotal * 0.18)
TaxOf(subtotal) == RoundDiv100(subtotal * TaxRatePercent)

\* the total with the tax left out
TotalAmountOf_NoTax(subtotal, shippingCost, tax) == subtotal + shippingCost

\* subtotal + shippingCost + tax
TotalAmountOf(subtotal, shippingCost, tax) == subtotal + shippingCost + tax

\* the initial status left to the schema default
InitialStatus_SchemaDefault(paymentMethod) == "Pending"

\* status: paymentMethod === 'cod' ? 'Confirmed' : 'Pending Payment'
InitialStatus(paymentMethod) ==
    IF paymentMethod = "cod" THEN "Confirmed" ELSE "Pending Payment"

\* the document handed to Order.create, schema defaults filled in
NewOrder(customerId, items, paymentMethod) ==
    LET subtotal == SumSubtotals(items)
        shippingCost == ShippingCostOf(subtotal)
        tax == TaxOf(subtotal)
    IN  [ customerId         |-> customerId,
          items              |-> items,
          subtotal           |-> subtotal,
          shippingCost       |-> shippingCost,
          tax                |-> tax,
          discount           |-> 0,
          totalAmount        |-> TotalAmountOf(subtotal, shippingCost, tax),
          paymentMethod      |-> paymentMethod,
          status             |-> InitialStatus(paymentMethod),
          confirmedAt        |-> NoDate,
          shippedAt          |-> NoDate,
          deliveredAt        |-> NoDate,
          cancelledAt        |-> NoDate,
          trackingNumber     |-> Undefined,
          carrier            |-> Undefined,
          cancellationReason |-> Undefined ]

\* the validators mongoose runs on Order.create
OrderValid(doc, address) ==
    /\ doc.customerId # Undefined
    /\ \A i \in 1..Len(doc.items) : doc.items[i].quantity >= 1
    /\ doc.paymentMethod \in OrderPaymentMethods
    /\ doc.status \in OrderStatuses
    /\ address # "malformed"

\* no request is being answered
NoResponse == [op |-> "none", id |-> 0, code |-> 0]

\* res.status(code).json(...): the handler of request `op` answers; the
\* client sends one request at a time
Respond(op, id, code) ==
    /\ response = NoResponse
    /\ response' = [op |-> op, id |-> id, code |-> code]

\* the client receives the response
ReceiveResponse ==
    /\ response # NoResponse
    /\ response' = NoResponse
    /\ UNCHANGED <<orderVars, paymentVars, productVars, brokerVars, flowVars>>

\* router.post('/')
CreateOrder(customerId, items, methodInput, address) ==
    LET paymentMethod == IF methodInput = Undefined THEN "cod" ELSE methodInput
        doc == NewOrder(customerId, items, paymentMethod)
    IN  /\ Len(orders) < MaxOrders
        /\ Writes < MaxWrites
        /\ IF OrderValid(doc, address)
           THEN /\ orders' = Append(orders, doc)
                /\ orderNow' = orderNow + 1
                /\ Respond("createOrder", Len(orders) + 1, 201)
           ELSE /\ Respond("createOrder", 0, 500)
                /\ UNCHANGED <<orders, orderNow>>
        /\ UNCHANGED <<paymentVars, productVars, brokerVars, flowVars>>

\* router.post('/') when the body has no items: items.reduce throws
CreateOrderNoItems ==
    /\ Respond("createOrder", 0, 500)
    /\ UNCHANGED <<orderVars, paymentVars, productVars, brokerVars, flowVars>>

Truthy(v) == v # Undefined /\ v # ""

\* updateData of router.put('/:id/status'): the status and the timestamps
\* set "based on status"
StatusUpdateData(status, trackingNumber, carrier, t) ==
    [status |-> status]
    @@ (IF status = "Confirmed" THEN [confirmedAt |-> t] ELSE << >>)
    @@ (IF status = "Shipped" THEN [shippedAt |-> t] ELSE << >>)
    @@ (IF status = "Shipped" /\ Truthy(trackingNumber)
        THEN [trackingNumber |-> trackingNumber] ELSE << >>)
    @@ (IF status = "Shipped" /\ Truthy(carrier)
        THEN [carrier |-> carrier] ELSE << >>)
    @@ (IF status = "Delivered" THEN [deliveredAt |-> t] ELSE << >>)
    @@ (IF status = "Cancelled" THEN [cancelledAt |-> t] ELSE << >>)

\* { $set: updateData } of findByIdAndUpdate, which runs no validators
ApplySet(doc, updateData) ==
    [f \in DOMAIN doc |->
        IF f \in DOMAIN updateData THEN updateData[f] ELSE doc[f]]

\* router.put('/:id/status')
UpdateOrderStatus(id, status, trackingNumber, carrier) ==
    /\ IF id \in 1..Len(orders)
       THEN /\ Writes < MaxWrites
            /\ orders' = [orders EXCEPT ![id] =
                  ApplySet(@, StatusUpdateData(status, trackingNumber, carrier, orderNow))]
            /\ orderNow' = orderNow + 1
            /\ Respond("updateStatus", id, 200)
       ELSE /\ Respond("updateStatus", id, 404)
            /\ UNCHANGED <<orders, orderNow>>
    /\ UNCHANGED <<paymentVars, productVars, brokerVars, flowVars>>

\* ['Shipped', 'Out for Delivery', 'Delivered'].includes(order.status)
CancelRefused(status) == status \in {"Shipped", "Out for Delivery", "Delivered"}

\* a cancel that also zeroes the amount due
CancelledOrder_ZeroTotal(doc, reason, t) ==
    [doc EXCEPT !.status = "Cancelled",
                !.cancelledAt = t,
                !.cancellationReason = reason,
                !.totalAmount = 0]

\* the order document router.post('/:id/cancel') saves
CancelledOrder(doc, reason, t) ==
    [doc EXCEPT !.status = "Cancelled",
                !.cancelledAt = t,
                !.cancellationReason = reason]

\* router.post('/:id/cancel')
CancelOrder(id, reason) ==
    /\ IF id \notin 1..Len(orders)
       THEN /\ Respond("cancel", id, 404)
            /\ UNCHANGED <<orders, orderNow>>
       ELSE IF CancelRefused(orders[id].status)
       THEN /\ Respond("cancel", id, 400)
            /\ UNCHANGED <<orders, orderNow>>
       ELSE /\ Writes < MaxWrites
            /\ orders' = [orders EXCEPT ![id] = CancelledOrder(@, reason, orderNow)]
            /\ orderNow' = orderNow + 1
            /\ Respond("cancel", id, 200)
    /\ UNCHANGED <<paymentVars, productVars, brokerVars, flowVars>>

(* -------------------------- payment ledger ----------------------------- *)
\* gatewayResponse of a payment confirm was never called on
NoGatewayResponse ==
    [evidence |-> Undefined, mockStatus |-> Undefined,
     transactionId |-> 0, processedAt |-> NoDate]

\* the document handed to Payment.create, schema defaults filled in
NewPayment(orderId, userId, amount, method) ==
    [ orderId         |-> orderId,
      userId          |-> userId,
      amount          |-> amount,
      currency        |-> "INR",
      method          |-> method,
      status          |-> "initiated",
      gatewayResponse |-> NoGatewayResponse,
      refundAmount    |-> NoAmount,
      refundReason    |-> Undefined,
      refundedAt      |-> NoDate ]

\* the validators mongoose runs on Payment.create
PaymentValid(doc) ==
    /\ doc.orderId # Undefined
    /\ doc.userId # Undefined
    /\ doc.amount # NoAmount
    /\ doc.method \in PaymentMethodEnum
    /\ doc.status \in PaymentStatuses

\* app.post('/initiate'): always Payment.create, no lookup by orderId
InitiatePayment(orderId, userId, amount, method) ==
    LET doc == NewPayment(orderId, userId, amount, method)
    IN  /\ Len(payments) < MaxPayments
        /\ Writes < MaxWrites
        /\ IF PaymentValid(doc)
           THEN /\ payments' = Append(payments, doc)
                /\ paymentNow' = paymentNow + 1
                /\ Respond("initiate", Len(payments) + 1, 201)
           ELSE /\ Respond("initiate", 0, 500)
                /\ UNCHANGED <<payments, paymentNow>>
        /\ UNCHANGED <<orderVars, txnSeq, productVars, brokerVars, flowVars>>

\* payment.status = isSuccess ? 'completed' : 'failed'
ConfirmedStatus(current, isSuccess) ==
    IF isSuccess THEN "completed" ELSE "failed"

\* { ...gatewayResponse, mockStatus, transactionId: `txn_${uuidv4()}`, processedAt }
GatewayRecord(evidence, isSuccess, txn, t) ==
    [evidence      |-> evidence,
     mockStatus    |-> IF isSuccess THEN "SUCCESS" ELSE "FAILED",
     transactionId |-> txn,
     processedAt   |-> t]

\* the payment document app.post('/confirm') saves
ConfirmedPayment(doc, evidence, isSuccess, txn, t) ==
    [doc EXCEPT !.status = ConfirmedStatus(doc.status, isSuccess),
                !.gatewayResponse = GatewayRecord(evidence, isSuccess, txn, t)]

\* app.post('/confirm'); isSuccess is Math.random() > 0.1
ConfirmPayment(id, evidence, isSuccess) ==
    /\ IF id \in 1..Len(payments)
       THEN /\ Writes < MaxWrites
            /\ payments' = [payments EXCEPT ![id] =
                  ConfirmedPayment(@, evidence, isSuccess, txnSeq + 1, paymentNow)]
            /\ txnSeq' = txnSeq + 1
            /\ paymentNow' = paymentNow + 1
            /\ Respond("confirm", id, 200)
       ELSE /\ Respond("confirm", id, 404)
            /\ UNCHANGED <<payments, txnSeq, paymentNow>>
    /\ UNCHANGED <<orderVars, productVars, brokerVars, flowVars>>

\* a refund guard that refuses only the statuses after a refund or a cancel
RefundRefused_TerminalOnly(status) == status \in {"refunded", "cancelled"}

\* payment.status !== 'completed'
RefundRefused(status) == status # "completed"

\* amount || payment.amount
RefundAmountOf(amount, paymentAmount) ==
    IF amount = NoAmount \/ amount = 0 THEN paymentAmount ELSE amount

\* the payment document app.post('/:paymentId/refund') saves
RefundedPayment(doc, amount, reason, t) ==
    [doc EXCEPT !.status = "refunded",
                !.refundAmount = RefundAmountOf(amount, doc.amount),
                !.refundReason = reason,
                !.refundedAt = t]

\* app.post('/:paymentId/refund')
RefundPayment(id, amount, reason) ==
    /\ IF id \notin 1..Len(payments)
       THEN /\ Respond("refund", id, 404)
            /\ UNCHANGED <<payments, paymentNow>>
       ELSE IF RefundRefused(payments[id].status)
       THEN /\ Respond("refund", id, 400)
            /\ UNCHANGED <<payments, paymentNow>>
       ELSE /\ Writes < MaxWrites
            /\ payments' = [payments EXCEPT ![id] =
                  RefundedPayment(@, amount, reason, paymentNow)]
            /\ paymentNow' = paymentNow + 1
            /\ Respond("refund", id, 200)
    /\ UNCHANGED <<orderVars, txnSeq, productVars, brokerVars, flowVars>>

(* -------------------------- product ledger ----------------------------- *)
\* connectToRabbitMQ: at start-up and from the 5 s retry / reconnect timer
ConnectToRabbitMQ ==
    /\ channel # "open"
    /\ channel' = "open"
    /\ UNCHANGED <<orderVars, paymentVars, response, products, productNow, published, brokerVars, flowVars>>

\* publishEvent(routingKey, data): a no-op without a channel
Published(log, routingKey, data, t) ==
    IF channel = "open"
    THEN Append(log, [routingKey |-> routingKey, data |-> data,
                      timestamp |-> t, source |-> "product-service"])
    ELSE log

\* status: quantity > 0 ? 'In Stock' : 'Out of Stock'
StockStatus(quantity) == IF quantity > 0 THEN "In Stock" ELSE "Out of Stock"

\* productSchema.pre('save'): status follows a modified quantity
PreSaveProduct(doc) ==
    IF doc.quantity = 0 THEN [doc EXCEPT !.status = "Out of Stock"]
    ELSE IF doc.quantity > 0 /\ doc.status = "Out of Stock"
    THEN [doc EXCEPT !.status = "In Stock"]
    ELSE doc

\* min: 0 validators of productSchema.price and productSchema.quantity
ProductFieldsValid(body) ==
    /\ "price" \in DOMAIN body => body.price >= 0
    /\ "quantity" \in DOMAIN body => body.quantity >= 0

\* exports.createProduct
CreateProduct(body) ==
    LET doc == PreSaveProduct(
                 [price |-> body.price, quantity |-> body.quantity,
                  status |-> StockStatus(body.quantity),
                  lowStockThreshold |-> DefaultLowStockThreshold])
        id == Len(products) + 1
    IN  /\ Len(products) < MaxProducts
        /\ Writes < MaxWrites
        /\ IF ProductFieldsValid(body)
           THEN /\ products' = Append(products, doc)
                /\ published' = Published(published, "product.created",
                                          [productId |-> id], productNow)
                /\ productNow' = productNow + 1
                /\ Respond("createProduct", id, 201)
           ELSE /\ Respond("createProduct", 0, 500)
                /\ UNCHANGED <<products, published, productNow>>
        /\ UNCHANGED <<orderVars, paymentVars, channel, brokerVars, flowVars>>

\* exports.updateProduct: { $set: req.body } with runValidators
UpdateProduct(id, body) ==
    /\ IF ~ProductFieldsValid(body)
       THEN /\ Respond("updateProduct", id, 500)
            /\ UNCHANGED <<products, published, productNow>>
       ELSE IF id \notin 1..Len(products)
       THEN /\ Respond("updateProduct", id, 404)
            /\ UNCHANGED <<products, published, productNow>>
       ELSE /\ Writes < MaxWrites
            /\ products' = [products EXCEPT ![id] = ApplySet(@, body)]
            /\ published' = Published(published, "product.updated",
                                      [productId |-> id], productNow)
            /\ productNow' = productNow + 1
            /\ Respond("updateProduct", id, 200)
    /\ UNCHANGED <<orderVars, paymentVars, channel, brokerVars, flowVars>>

\* the update document of exports.updateInventory, applied to the quantity
InventoryQuantity(current, quantity, operation) ==
    IF operation = "increment" THEN current + quantity
    ELSE IF operation = "decrement" THEN current - quantity
    ELSE quantity

\* product.quantity <= product.lowStockThreshold && product.quantity > 0
LowStock(doc) == doc.quantity <= doc.lowStockThreshold /\ doc.quantity > 0

\* exports.updateInventory: findByIdAndUpdate without validators or save hooks
UpdateInventory(id, quantity, operation) ==
    /\ IF id \notin 1..Len(products)
       THEN /\ Respond("updateInventory", id, 404)
            /\ UNCHANGED <<products, published, productNow>>
       ELSE LET doc == [products[id] EXCEPT !.quantity =
                            InventoryQuantity(@, quantity, operation)]
            IN  /\ Writes < MaxWrites
                /\ products' = [products EXCEPT ![id] = doc]
                /\ published' =
                      IF LowStock(doc)
                      THEN Published(published, "inventory.low",
                               [productId |-> id, quantity |-> doc.quantity], productNow)
                      ELSE published
                /\ productNow' = productNow + 1
                /\ Respond("updateInventory", id, 200)
    /\ UNCHANGED <<orderVars, paymentVars, channel, brokerVars, flowVars>>

(* --------------------------- message broker ---------------------------- *)
\* the queue product-service's subscribeToEvents asserts and consumes
ProductQueue == "product-service-orders"
\* the queue of a consumer registered with RabbitMQ.subscribe (shared package)
SharedQueue == "shared-subscriber"
\* the queue of a consumer registered with auth-service's subscribeToEvent
AuthQueue == "auth-subscriber"
Queues == {ProductQueue, SharedQueue, AuthQueue}

\* bindQueue: product-service binds its queue to 'order.created'; the routing
\* key of the two generic subscribers is a parameter, here one key each
Bindings ==
    [q \in Queues |->
        IF q = ProductQueue THEN {"order.created"}
        ELSE IF q = SharedQueue THEN {"email.send"}
        ELSE {"user.created"}]

\* a message content that is not JSON text
NotJSON == [text |-> "not json"]
\* JSON.parse(msg.content.toString()) returns rather than throws
Parses(content) == content # NotJSON

\* the clients that decrement the stock for their order, and the units each asks for
Clients == 1..MaxClients
OrderQty == 1

\* the facts other services put on the exchange: those about order 1 (one
\* line of OrderQty units of product 1), those the generic subscribers are
\* bound to, and a content that is not JSON for either kind of consumer
FactInputs ==
    { [routingKey |-> "order.created",
       content |-> [orderId |-> 1,
                    items |-> << [productId |-> 1, quantity |-> OrderQty] >>]],
      [routingKey |-> "order.created", content |-> NotJSON],
      [routingKey |-> "order.cancelled", content |-> [orderId |-> 1]],
      [routingKey |-> "payment.failed", content |-> [orderId |-> 1]],
      [routingKey |-> "email.send", content |-> [to |-> "u1"]],
      [routingKey |-> "email.send", content |-> NotJSON],
      [routingKey |-> "user.created", content |-> [userId |-> "u1"]] }

\* the products collection when the broker scenario starts: the product
\* CreateProduct stored and an inventory 'set' left with one unit
BrokerProducts ==
    << [price |-> 100, quantity |-> 1, status |-> "In Stock",
        lowStockThreshold |-> DefaultLowStockThreshold] >>

\* a publisher hands a fact to the topic exchange, which copies it to every
\* queue bound to its routing key and drops it when there is none; a message
\* is identified by the position of its fact in the exchange's log
PublishFact(f) ==
    /\ Len(facts) < MaxFacts
    /\ facts' = Append(facts, f)
    /\ ready' = [q \in Queues |->
                    IF f.routingKey \in Bindings[q]
                    THEN Append(ready[q], [fact |-> Len(facts) + 1,
                                           routingKey |-> f.routingKey,
                                           content |-> f.content,
                                           redelivered |-> FALSE])
                    ELSE ready[q]]
    /\ UNCHANGED <<flowVars, orderVars, paymentVars, response, productVars, deliveries, answers>>

\* a settlement that acknowledges whatever the handler did
SettlementOf_AlwaysAck(handler) == "ack"

\* the try/catch of a consume callback: channel.ack(msg) once the handler
\* has returned, channel.nack(msg, false, true) from the catch block
SettlementOf(handler) == IF handler = "completed" THEN "ack" ELSE "nack"

\* nack(msg, false, true): the broker delivers the message again; without a
\* prefetch limit the messages still waiting were pushed to the consumer
\* before, so the redelivery follows them
Requeued(queue, message) == Append(queue, [message EXCEPT !.redelivered = TRUE])

\* the consume callback of subscribeToEvents, which has no await: parse, log
\* ("Update sold count" is a comment) and ack, or nack from the catch block
ConsumeOrderCreated ==
    /\ channel = "open"
    /\ ready[ProductQueue] # << >>
    /\ Len(deliveries[ProductQueue]) < MaxDeliveries
    /\ LET m == Head(ready[ProductQueue])
           handler == IF Parses(m.content) THEN "completed" ELSE "none"
           d == [message |-> m, handler |-> handler, settled |-> SettlementOf(handler)]
       IN  /\ deliveries' = [deliveries EXCEPT ![ProductQueue] = Append(@, d)]
           /\ ready' = [ready EXCEPT ![ProductQueue] =
                           IF d.settled = "nack" THEN Requeued(Tail(@), m)
                           ELSE Tail(@)]
    /\ UNCHANGED <<flowVars, orderVars, paymentVars, response, productVars, answers, facts>>

\* the consume callback of a generic subscriber up to its first await: a
\* content that does not parse is nacked at once, otherwise the handler starts
Deliver(q) ==
    /\ ready[q] # << >>
    /\ Len(deliveries[q]) < MaxDeliveries
    /\ LET m == Head(ready[q])
       IN  IF Parses(m.content)
           THEN /\ deliveries' = [deliveries EXCEPT ![q] =
                      Append(@, [message |-> m, handler |-> "running",
                                 settled |-> "none"])]
                /\ ready' = [ready EXCEPT ![q] = Tail(@)]
           ELSE /\ deliveries' = [deliveries EXCEPT ![q] =
                      Append(@, [message |-> m, handler |-> "none",
                                 settled |-> SettlementOf("none")])]
                /\ ready' = [ready EXCEPT ![q] = Requeued(Tail(@), m)]
    /\ UNCHANGED <<flowVars, orderVars, paymentVars, response, productVars, answers, facts>>

\* await handler(content, msg): the subscriber's handler resolves
HandlerReturns(q, i) ==
    /\ i \in 1..Len(deliveries[q])
    /\ deliveries[q][i].handler = "running"
    /\ deliveries' = [deliveries EXCEPT ![q][i].handler = "completed"]
    /\ UNCHANGED <<flowVars, orderVars, paymentVars, response, productVars, ready, answers, facts>>

\* await handler(content, msg): the subscriber's handler rejects
HandlerThrows(q, i) ==
    /\ i \in 1..Len(deliveries[q])
    /\ deliveries[q][i].handler = "running"
    /\ deliveries' = [deliveries EXCEPT ![q][i].handler = "threw"]
    /\ UNCHANGED <<flowVars, orderVars, paymentVars, response, productVars, ready, answers, facts>>

\* the callback resumes after the await: ack, or nack with requeue
Settle(q, i) ==
    /\ i \in 1..Len(deliveries[q])
    /\ deliveries[q][i].handler \in {"completed", "threw"}
    /\ deliveries[q][i].settled = "none"
    /\ LET outcome == SettlementOf(deliveries[q][i].handler)
       IN  /\ deliveries' = [deliveries EXCEPT ![q][i].settled = outcome]
           /\ ready' = [ready EXCEPT ![q] =
                           IF outcome = "nack"
                           THEN Requeued(@, deliveries[q][i].message)
                           ELSE @]
    /\ UNCHANGED <<flowVars, orderVars, paymentVars, response, productVars, answers, facts>>

\* the connection drops after the handler returned and before the broker has
\* the ack: channel.ack throws on the closed channel, so does the nack in the
\* catch block, and the broker requeues the unacknowledged message
AckLost(q, i) ==
    /\ i \in 1..Len(deliveries[q])
    /\ deliveries[q][i].handler = "completed"
    /\ deliveries[q][i].settled = "none"
    /\ deliveries' = [deliveries EXCEPT ![q][i].settled = "lost"]
    /\ ready' = [ready EXCEPT ![q] = Requeued(@, deliveries[q][i].message)]
    /\ UNCHANGED <<flowVars, orderVars, paymentVars, response, productVars, answers, facts>>

\* a client that has sent no inventory request
NoAnswer == [state |-> "idle", code |-> 0, quantity |-> 0]

\* a client's PATCH /products/1/inventory {quantity: OrderQty, operation:
\* 'decrement'} reaches exports.updateInventory while others are in flight
InventoryRequest(c) ==
    /\ answers[c].state = "idle"
    /\ answers' = [answers EXCEPT ![c].state = "pending"]
    /\ UNCHANGED <<flowVars, orderVars, paymentVars, response, productVars, ready, deliveries, facts>>

\* exports.updateInventory up to its first await, for one of the requests in
\* flight: findByIdAndUpdate applies the $inc in the database and returns the
\* new document
UpdateInventoryInFlight(c) ==
    /\ answers[c].state = "pending"
    /\ LET doc == [products[1] EXCEPT !.quantity =
                       InventoryQuantity(@, OrderQty, "decrement")]
       IN  /\ products' = [products EXCEPT ![1] = doc]
           /\ productNow' = productNow + 1
           /\ answers' = [answers EXCEPT ![c] =
                             [state |-> "updated", code |-> 0, quantity |-> doc.quantity]]
    /\ UNCHANGED <<flowVars, orderVars, paymentVars, response, channel, published,
                   ready, deliveries, facts>>

\* exports.updateInventory after the await: the low-stock check on the
\* returned document, then res.json
AnswerInventory(c) ==
    /\ answers[c].state = "updated"
    /\ published' =
          IF LowStock([products[1] EXCEPT !.quantity = answers[c].quantity])
          THEN Published(published, "inventory.low",
                   [productId |-> 1, quantity |-> answers[c].quantity], productNow)
          ELSE published
    /\ answers' = [answers EXCEPT ![c].state = "answered", ![c].code = 200]
    /\ UNCHANGED <<flowVars, orderVars, paymentVars, response, products, productNow, channel,
                   ready, deliveries, facts>>

(* ----------------------- shared RabbitMQ client ------------------------ *)
\* new RabbitMQ(): no connection, no channel, connected = false
NoClient ==
    [connected |-> FALSE, open |-> FALSE, channel |-> 0, connections |-> 0,
     timers |-> 0, closed |-> FALSE]

\* connect(url) succeeds: a new connection and a new channel replace the old
\* ones, connected = true, and the 'error' and 'close' listeners are attached
Connected(c) ==
    [c EXCEPT !.connected = TRUE, !.open = TRUE,
              !.connections = @ + 1, !.channel = c.connections + 1]

\* connect(url) fails: the catch block starts the 5 s retry timer
ConnectFailed(c) == [c EXCEPT !.timers = @ + 1]

\* the application's connect() at start-up
ClientConnect(ok) ==
    /\ client.connections = 0
    /\ client.timers = 0
    /\ client' = IF ok THEN Connected(client) ELSE ConnectFailed(client)
    /\ UNCHANGED <<orderVars, paymentVars, response, productVars, brokerVars,
                   cancelling, checkout, calls, cart, receipts, cacheVars, consumers>>

\* setTimeout(() => this.connect(url), 5000) fires
ReconnectTimerFires(ok) ==
    /\ client.timers > 0
    /\ ok => client.connections < MaxConnections
    /\ client' = LET c == [client EXCEPT !.timers = @ - 1]
                 IN  IF ok THEN Connected(c) ELSE ConnectFailed(c)
    /\ UNCHANGED <<orderVars, paymentVars, response, productVars, brokerVars,
                   cancelling, checkout, calls, cart, receipts, cacheVars, consumers>>

\* the broker connection drops: the 'close' listener sets connected = false
\* and starts the reconnect timer
ConnectionDrops ==
    /\ client.open
    /\ client' = [client EXCEPT !.connected = FALSE, !.open = FALSE, !.timers = @ + 1]
    /\ UNCHANGED <<orderVars, paymentVars, response, productVars, brokerVars,
                   cancelling, checkout, calls, cart, receipts, cacheVars, consumers>>

\* subscribe(queue, exchange, routingKey, handler) on a connected client:
\* the consumer is registered on the client's current channel
ClientSubscribe(q) ==
    /\ client.connected
    /\ consumers[q] = 0
    /\ consumers' = [consumers EXCEPT ![q] = client.channel]
    /\ UNCHANGED <<orderVars, paymentVars, response, productVars, brokerVars,
                   cancelling, checkout, calls, cart, receipts, cacheVars, client>>

\* close(): channel.close() and connection.close(), upon which the
\* connection emits 'close' and its listener runs, then connected = false;
\* on a connection that is already down channel.close() throws and the
\* catch block logs
ClientClose ==
    /\ client.channel # 0
    /\ ~client.closed
    /\ client' = IF client.open
                 THEN [client EXCEPT !.connected = FALSE, !.open = FALSE,
                                     !.timers = @ + 1, !.closed = TRUE]
                 ELSE [client EXCEPT !.closed = TRUE]
    /\ UNCHANGED <<orderVars, paymentVars, response, productVars, brokerVars,
                   cancelling, checkout, calls, cart, receipts, cacheVars, consumers>>

\* the consumer of queue q sits on the channel of a connection that is up
Consuming(q) ==
    /\ client.open
    /\ consumers[q] # 0
    /\ consumers[q] = client.channel

\* the broker pushes a message to the consumer the client registered
DeliverToSubscriber(q) == Consuming(q) /\ Deliver(q)

\* the callback settles the delivery on its channel
SettleOnChannel(q, i) == Consuming(q) /\ Settle(q, i)

\* the channel of the delivery is gone when the handler has returned
AckOnClosedChannel(q, i) == ~Consuming(q) /\ AckLost(q, i)

(* ---------------- cancel racing with a status update ------------------ *)
\* a client that has sent no cancel request
NoCancel == [state |-> "idle", id |-> 0, reason |-> Undefined, t |-> NoDate, code |-> 0]

\* router.post('/:id/cancel') up to `await order.save()`: findById, the
\* checks and the assignments to the in-memory document
CancelRead(c, id, reason) ==
    /\ cancelling[c].state = "idle"
    /\ IF id \notin 1..Len(orders)
       THEN /\ cancelling' = [cancelling EXCEPT ![c] =
                  [NoCancel EXCEPT !.state = "answered", !.id = id, !.code = 404]]
            /\ UNCHANGED orderNow
       ELSE IF CancelRefused(orders[id].status)
       THEN /\ cancelling' = [cancelling EXCEPT ![c] =
                  [NoCancel EXCEPT !.state = "answered", !.id = id, !.code = 400]]
            /\ UNCHANGED orderNow
       ELSE /\ Writes < MaxWrites
            /\ cancelling' = [cancelling EXCEPT ![c] =
                  [state |-> "read", id |-> id, reason |-> reason,
                   t |-> orderNow, code |-> 0]]
            /\ orderNow' = orderNow + 1
    /\ UNCHANGED <<orders, paymentVars, response, productVars, brokerVars,
                   checkout, calls, cart, receipts, cacheVars, clientVars>>

\* order.save() of router.post('/:id/cancel') and its answer: the three
\* modified paths are written to the stored document
CancelSave(c) ==
    /\ cancelling[c].state = "read"
    /\ orders' = [orders EXCEPT ![cancelling[c].id] =
          CancelledOrder(@, cancelling[c].reason, cancelling[c].t)]
    /\ cancelling' = [cancelling EXCEPT ![c].state = "answered", ![c].code = 200]
    /\ UNCHANGED <<orderNow, paymentVars, response, productVars, brokerVars,
                   checkout, calls, cart, receipts, cacheVars, clientVars>>

\* the client receives the answer to its cancel request
CancelAnswered(c) ==
    /\ cancelling[c].state = "answered"
    /\ cancelling' = [cancelling EXCEPT ![c] = NoCancel]
    /\ UNCHANGED <<orderVars, paymentVars, response, productVars, brokerVars,
                   checkout, calls, cart, receipts, cacheVars, clientVars>>

(* ------------------------------ checkout -------------------------------- *)
\* the customer whose page and cart these are
Customer == "u1"

\* the payment methods the customer picks (of cash_on_delivery, card,
\* bank_transfer and qr_code, one offline and one online method)
CheckoutMethodInputs == {"cash_on_delivery", "card"}

\* the card form: filled in correctly, or failing one of the three checks
CardInputs == {"valid", "invalid"}

\* what an awaited request comes back with: a 2xx answer that reports
\* success, a 2xx answer that does not, or a rejected promise (any other
\* status, a timeout, a network error)
AnswerInputs == {"ok", "refused", "thrown"}

\* the answers of POST /payments/process/:paymentId
ProcessAnswers ==
    {[success |-> TRUE, status |-> "completed"],
     [success |-> FALSE, status |-> "failed"]}

\* the page as loaded: processing is false, no order and no payment yet
NoCheckout ==
    [pc |-> "idle", attempts |-> 0, paymentMethod |-> Undefined,
     orderId |-> 0, paymentId |-> 0, toast |-> "none", stored |-> TRUE]

\* a request handleCheckout sends
Request(url, paymentId) ==
    [kind |-> "request", url |-> url, paymentId |-> paymentId,
     success |-> FALSE, status |-> "none"]

\* an answer handleCheckout gets
Answer(url, paymentId, success, status) ==
    [kind |-> "response", url |-> url, paymentId |-> paymentId,
     success |-> success, status |-> status]

\* the cart the page posts: two units at 100
CheckoutItems == <<Item(2, 100, 200)>>

\* the status of the order a checkout creates: Confirmed for cash on
\* delivery, Pending Payment for an online method
CheckoutOrderStatus(method) ==
    IF method = "cash_on_delivery" THEN "Confirmed" ELSE "Pending Payment"

\* the order POST /orders/checkout creates
CheckoutOrder(method) ==
    [NewOrder(Customer, CheckoutItems, "cod") EXCEPT
        !.paymentMethod = method,
        !.status = CheckoutOrderStatus(method)]

\* the payment POST /payments/initiate creates for an order
CheckoutPayment(orderId, method) ==
    NewPayment(orderId, Customer, orders[orderId].totalAmount, method)

\* POST /payments/process/:paymentId settles the payment and moves its
\* order: completed confirms it, failed cancels it
ProcessedOrder(doc, status, t) ==
    IF status = "completed"
    THEN [doc EXCEPT !.status = "Confirmed", !.confirmedAt = t]
    ELSE [doc EXCEPT !.status = "Cancelled", !.cancelledAt = t,
                     !.cancellationReason = "payment failed"]

\* catch (error) of handleCheckout: toast.error, setProcessing(false)
Caught == [checkout EXCEPT !.pc = "idle", !.toast = "Checkout failed"]

\* handleCheckout up to its first await: the processing guard, the card
\* checks, setProcessing(true) and POST /orders/checkout
HandleCheckout(method, card) ==
    /\ checkout.pc = "idle"
    /\ checkout.attempts < MaxCheckouts
    /\ IF method = "card" /\ card # "valid"
       THEN /\ checkout' = [checkout EXCEPT !.paymentMethod = method,
                                            !.attempts = @ + 1,
                                            !.toast = "Invalid card"]
            /\ UNCHANGED calls
       ELSE /\ checkout' = [checkout EXCEPT !.pc = "order",
                                            !.attempts = @ + 1,
                                            !.paymentMethod = method,
                                            !.orderId = 0,
                                            !.paymentId = 0,
                                            !.toast = "none"]
            /\ calls' = <<Request("/orders/checkout", 0)>>
    /\ UNCHANGED <<orderVars, paymentVars, response, productVars, brokerVars,
                   cancelling, cart, receipts, cacheVars, clientVars>>

\* POST /orders/checkout answers; on status 200 the handler goes on to
\* POST /payments/initiate, whatever the payment method
OrderAnswered(answer) ==
    /\ checkout.pc = "order"
    /\ IF answer = "ok"
       THEN /\ Len(orders) < MaxOrders
            /\ orders' = Append(orders, CheckoutOrder(checkout.paymentMethod))
            /\ orderNow' = orderNow + 1
            /\ checkout' = [checkout EXCEPT !.pc = "initiate",
                                            !.orderId = Len(orders) + 1]
            /\ calls' = calls \o <<Answer("/orders/checkout", 0, TRUE, "none"),
                                   Request("/payments/initiate", 0)>>
       ELSE /\ checkout' = IF answer = "thrown" THEN Caught
                           ELSE [checkout EXCEPT !.pc = "idle",
                                                 !.toast = "Failed to create order"]
            /\ calls' = Append(calls, Answer("/orders/checkout", 0, FALSE, "none"))
            /\ UNCHANGED orderVars
    /\ UNCHANGED <<paymentVars, response, productVars, brokerVars,
                   cancelling, cart, receipts, cacheVars, clientVars>>

\* POST /payments/initiate answers; on success the handler goes on to
\* POST /payments/process/:paymentId
InitiateAnswered(answer) ==
    /\ checkout.pc = "initiate"
    /\ IF answer = "ok"
       THEN /\ Len(payments) < MaxPayments
            /\ payments' = Append(payments,
                  CheckoutPayment(checkout.orderId, checkout.paymentMethod))
            /\ paymentNow' = paymentNow + 1
            /\ checkout' = [checkout EXCEPT !.pc = "process",
                                            !.paymentId = Len(payments) + 1]
            /\ calls' = calls \o
                  <<Answer("/payments/initiate", Len(payments) + 1, TRUE, "initiated"),
                    Request("/payments/process", Len(payments) + 1)>>
       ELSE /\ checkout' = IF answer = "thrown" THEN Caught
                           ELSE [checkout EXCEPT !.pc = "idle",
                                                 !.toast = "Failed to initiate payment"]
            /\ calls' = Append(calls, Answer("/payments/initiate", 0, FALSE, "none"))
            /\ UNCHANGED <<payments, paymentNow, cacheVars, clientVars>>
    /\ UNCHANGED <<orderVars, txnSeq, response, productVars, brokerVars,
                   cancelling, cart, receipts, cacheVars, clientVars>>

\* a handler that takes every answer for a completed payment
ProcessSucceeded_AnyAnswer(answer) == TRUE

\* processResponse.data.success && processResponse.data.data.status === 'completed'
ProcessSucceeded(answer) == answer.success /\ answer.status = "completed"

\* POST /payments/process/:paymentId answers; only on a completed payment
\* the handler goes on to POST /receipts
ProcessAnswered(answer) ==
    /\ checkout.pc = "process"
    /\ payments' = [payments EXCEPT ![checkout.paymentId].status = answer.status]
    /\ paymentNow' = paymentNow + 1
    /\ orders' = [orders EXCEPT ![checkout.orderId] =
                      ProcessedOrder(@, answer.status, orderNow)]
    /\ orderNow' = orderNow + 1
    /\ IF ProcessSucceeded(answer)
       THEN /\ checkout' = [checkout EXCEPT !.pc = "receipt"]
            /\ calls' = calls \o
                  <<Answer("/payments/process", checkout.paymentId,
                           answer.success, answer.status),
                    Request("/receipts", checkout.paymentId)>>
       ELSE /\ checkout' = [checkout EXCEPT !.pc = "idle", !.toast = "Payment failed"]
            /\ calls' = Append(calls, Answer("/payments/process", checkout.paymentId,
                                             answer.success, answer.status))
    /\ UNCHANGED <<txnSeq, response, productVars, brokerVars,
                   cancelling, cart, receipts, cacheVars, clientVars>>

\* POST /payments/process/:paymentId does not answer in time or answers
\* with an error status: the promise rejects
ProcessThrown ==
    /\ checkout.pc = "process"
    /\ checkout' = Caught
    /\ calls' = Append(calls, Answer("/payments/process", checkout.paymentId,
                                     FALSE, "none"))
    /\ UNCHANGED <<orderVars, paymentVars, response, productVars, brokerVars,
                   cancelling, cart, receipts, cacheVars, clientVars>>

\* POST /receipts answers: on success the three sessionStorage items are
\* removed and the page is left for /payment-success, otherwise for /orders
ReceiptAnswered(answer) ==
    /\ checkout.pc = "receipt"
    /\ IF answer = "ok"
       THEN /\ receipts' = Append(receipts, [paymentId |-> checkout.paymentId])
            /\ checkout' = [checkout EXCEPT !.pc = "left",
                                            !.toast = "Payment successful!",
                                            !.stored = FALSE]
       ELSE /\ checkout' = IF answer = "thrown" THEN Caught
                           ELSE [checkout EXCEPT !.pc = "left",
                                                 !.toast = "Receipt generation failed"]
            /\ UNCHANGED receipts
    /\ calls' = Append(calls, Answer("/receipts", checkout.paymentId,
                                     answer = "ok", "none"))
    /\ UNCHANGED <<orderVars, paymentVars, response, productVars, brokerVars,
                   cancelling, cart, cacheVars, clientVars>>

\* the customer opens the checkout page again
OpenCheckout ==
    /\ checkout.pc = "left"
    /\ checkout' = [NoCheckout EXCEPT !.attempts = checkout.attempts,
                                      !.stored = checkout.stored]
    /\ calls' = << >>
    /\ UNCHANGED <<orderVars, paymentVars, response, productVars, brokerVars,
                   cancelling, cart, receipts, cacheVars, clientVars>>

(* ---------------------------- cart service ----------------------------- *)
\* the key cart:<userId> is absent
NoCache == [present |-> FALSE, products |-> << >>]

\* redis.setex(key, 600, JSON.stringify({ cart, products: cart.products })):
\* the products survive the round trip through JSON as they are
Cached(entries) == [present |-> TRUE, products |-> entries]

\* a client that has sent no GET cart request
NoGet == [state |-> "idle", products |-> << >>]

\* cart-service app.post('/:userId/items'): the quantity is added to the
\* product's entry, or a new entry is pushed; then the cache key is deleted
AddToCart(productId, quantity) ==
    /\ \A i \in 1..Len(cart) :
          cart[i].productId = productId => cart[i].quantity + quantity <= MaxCartQuantity
    /\ cart' = IF \E i \in 1..Len(cart) : cart[i].productId = productId
               THEN [i \in 1..Len(cart) |->
                        IF cart[i].productId = productId
                        THEN [cart[i] EXCEPT !.quantity = @ + quantity]
                        ELSE cart[i]]
               ELSE Append(cart, [productId |-> productId, quantity |-> quantity])
    /\ cache' = NoCache
    /\ UNCHANGED <<orderVars, paymentVars, response, productVars, brokerVars,
                   cancelling, checkout, calls, receipts, gets, clientVars>>

\* cart.products.filter(p => p.productId !== productId)
WithoutProduct(entries, productId) ==
    SelectSeq(entries, LAMBDA p : p.productId # productId)

\* cart-service app.put('/:userId/items/:productId') on an item of the
\* cart: a quantity <= 0 removes the item, another one replaces its quantity
UpdateCartItem(productId, quantity) ==
    /\ \E i \in 1..Len(cart) : cart[i].productId = productId
    /\ cart' = IF quantity <= 0
               THEN WithoutProduct(cart, productId)
               ELSE [i \in 1..Len(cart) |->
                        IF cart[i].productId = productId
                        THEN [cart[i] EXCEPT !.quantity = quantity]
                        ELSE cart[i]]
    /\ cache' = NoCache
    /\ UNCHANGED <<orderVars, paymentVars, response, productVars, brokerVars,
                   cancelling, checkout, calls, receipts, gets, clientVars>>

\* cart-service app.delete('/:userId/items/:productId'): $pull
RemoveFromCart(productId) ==
    /\ cart' = WithoutProduct(cart, productId)
    /\ cache' = NoCache
    /\ UNCHANGED <<orderVars, paymentVars, response, productVars, brokerVars,
                   cancelling, checkout, calls, receipts, gets, clientVars>>

\* cart-service app.delete('/:userId/clear'): { $set: { products: [] } }
ClearCart ==
    /\ cart # << >>
    /\ cart' = << >>
    /\ cache' = NoCache
    /\ UNCHANGED <<orderVars, paymentVars, response, productVars, brokerVars,
                   cancelling, checkout, calls, receipts, gets, clientVars>>

\* cart-service app.get('/:userId'), redis.get: a cached cart is answered
\* as it is
GetCartCache(c) ==
    /\ gets[c].state = "idle"
    /\ gets' = [gets EXCEPT ![c] =
          IF cache.present
          THEN [state |-> "answered", products |-> cache.products]
          ELSE [state |-> "missed", products |-> << >>]]
    /\ UNCHANGED <<orderVars, paymentVars, response, productVars, brokerVars,
                   cancelling, checkout, calls, cart, receipts, cache, clientVars>>

\* app.get('/:userId') after the miss, Cart.findOne
GetCartStore(c) ==
    /\ gets[c].state = "missed"
    /\ gets' = [gets EXCEPT ![c] = [state |-> "read", products |-> cart]]
    /\ UNCHANGED <<orderVars, paymentVars, response, productVars, brokerVars,
                   cancelling, checkout, calls, cart, receipts, cache, clientVars>>

\* app.get('/:userId'), redis.setex with the cart it read, and the answer
GetCartSetex(c) ==
    /\ gets[c].state = "read"
    /\ cache' = Cached(gets[c].products)
    /\ gets' = [gets EXCEPT ![c].state = "answered"]
    /\ UNCHANGED <<orderVars, paymentVars, response, productVars, brokerVars,
                   cancelling, checkout, calls, cart, receipts, clientVars>>

\* the client receives the cart
GetCartAnswered(c) ==
    /\ gets[c].state = "answered"
    /\ gets' = [gets EXCEPT ![c] = NoGet]
    /\ UNCHANGED <<orderVars, paymentVars, response, productVars, brokerVars,
                   cancelling, checkout, calls, cart, receipts, cache, clientVars>>

\* the key's 600 s are over
CacheExpires ==
    /\ cache.present
    /\ cache' = NoCache
    /\ UNCHANGED <<orderVars, paymentVars, response, productVars, brokerVars,
                   cancelling, checkout, calls, cart, receipts, gets, clientVars>>

\* no cancel request in flight, the checkout page just opened, an empty cart
FlowInit ==
    /\ cancelling = [c \in Clients |-> NoCancel]
    /\ checkout = NoCheckout
    /\ calls = << >>
    /\ cart = << >>
    /\ receipts = << >>
    /\ cache = NoCache
    /\ gets = [c \in Clients |-> NoGet]
    /\ client = NoClient
    /\ consumers = [q \in Queues |-> 0]

Init ==
    /\ orders = << >>
    /\ payments = << >>
    /\ orderNow = 1
    /\ paymentNow = 1
    /\ productNow = 1
    /\ txnSeq = 0
    /\ response = NoResponse
    /\ products = << >>
    /\ channel = "null"
    /\ published = << >>
    /\ ready = [q \in Queues |-> << >>]
    /\ deliveries = [q \in Queues |-> << >>]
    /\ answers = [c \in Clients |-> NoAnswer]
    /\ facts = << >>
    /\ FlowInit

\* the ids a client sends: those of the stored documents and one unknown id
IdInputs(collection, max) ==
    {id \in 1..max : id <= Len(collection) + 1}

Next ==
    \/ ReceiveResponse
    \/ \E b \in CreateOrderBodies :
            CreateOrder(b.customerId, b.items, b.paymentMethod, b.address)
    \/ CreateOrderNoItems
    \/ \E id \in IdInputs(orders, MaxOrders), st \in StatusInputs, sh \in ShipmentInputs :
            UpdateOrderStatus(id, st, sh[1], sh[2])
    \/ \E id \in IdInputs(orders, MaxOrders), r \in ReasonInputs : CancelOrder(id, r)
    \/ \E b \in InitiateBodies :
            InitiatePayment(b.orderId, b.userId, b.amount, b.method)
    \/ \E id \in IdInputs(payments, MaxPayments), e \in EvidenceInputs, ok \in BOOLEAN :
            ConfirmPayment(id, e, ok)
    \/ \E id \in IdInputs(payments, MaxPayments), a \in RefundAmountInputs, r \in ReasonInputs :
            RefundPayment(id, a, r)
    \/ ConnectToRabbitMQ
    \/ \E b \in CreateProductBodies : CreateProduct(b)
    \/ \E id \in IdInputs(products, MaxProducts), b \in UpdateProductBodies : UpdateProduct(id, b)
    \/ \E id \in IdInputs(products, MaxProducts), q \in InventoryQuantityInputs,
          op \in InventoryOperationInputs :
            UpdateInventory(id, q, op)

Spec == Init /\ [][Next]_vars

\* product-service after startServer (database connected, channel open,
\* consumer subscribed) with one unit of its product left, and the two
\* generic subscribers registered
BrokerInit ==
    /\ orders = << >>
    /\ payments = << >>
    /\ orderNow = 1
    /\ paymentNow = 1
    /\ productNow = 1
    /\ txnSeq = 0
    /\ response = NoResponse
    /\ products = BrokerProducts
    /\ channel = "open"
    /\ published = << >>
    /\ ready = [q \in Queues |-> << >>]
    /\ deliveries = [q \in Queues |-> << >>]
    /\ answers = [c \in Clients |-> NoAnswer]
    /\ facts = << >>
    /\ FlowInit

\* the broker and the three consumers alone
ConsumerNext ==
    \/ \E f \in FactInputs : PublishFact(f)
    \/ ConsumeOrderCreated
    \/ \E q \in {SharedQueue, AuthQueue} : Deliver(q)
    \/ \E q \in {SharedQueue, AuthQueue}, i \in 1..MaxDeliveries : HandlerReturns(q, i)
    \/ \E q \in {SharedQueue, AuthQueue}, i \in 1..MaxDeliveries : HandlerThrows(q, i)
    \/ \E q \in {SharedQueue, AuthQueue}, i \in 1..MaxDeliveries : Settle(q, i)
    \/ \E q \in {SharedQueue, AuthQueue}, i \in 1..MaxDeliveries : AckLost(q, i)

SpecConsumer == BrokerInit /\ [][ConsumerNext]_vars

\* the broker, the consumers and the clients' inventory requests
BrokerNext ==
    \/ \E f \in FactInputs : PublishFact(f)
    \/ ConsumeOrderCreated
    \/ \E q \in {SharedQueue, AuthQueue} : Deliver(q)
    \/ \E q \in {SharedQueue, AuthQueue}, i \in 1..MaxDeliveries : HandlerReturns(q, i)
    \/ \E q \in {SharedQueue, AuthQueue}, i \in 1..MaxDeliveries : HandlerThrows(q, i)
    \/ \E q \in {SharedQueue, AuthQueue}, i \in 1..MaxDeliveries : Settle(q, i)
    \/ \E q \in {SharedQueue, AuthQueue}, i \in 1..MaxDeliveries : AckLost(q, i)
    \/ \E c \in Clients : InventoryRequest(c)
    \/ \E c \in Clients : UpdateInventoryInFlight(c)
    \/ \E c \in Clients : AnswerInventory(c)

SpecBroker == BrokerInit /\ [][BrokerNext]_vars

\* order-service with the cancel handler's database read and write as
\* separate steps, next to the status update
RaceNext ==
    \/ ReceiveResponse
    \/ \E b \in CreateOrderBodies :
            CreateOrder(b.customerId, b.items, b.paymentMethod, b.address)
    \/ \E id \in IdInputs(orders, MaxOrders), st \in StatusInputs, sh \in ShipmentInputs :
            UpdateOrderStatus(id, st, sh[1], sh[2])
    \/ \E c \in Clients, id \in IdInputs(orders, MaxOrders), r \in ReasonInputs :
            CancelRead(c, id, r)
    \/ \E c \in Clients : CancelSave(c)
    \/ \E c \in Clients : CancelAnswered(c)

SpecRace == Init /\ [][RaceNext]_vars

\* cart-service with concurrent readers of one customer's cart
CartNext ==
    \/ AddToCart("p1", 1)
    \/ \E q \in {0, MaxCartQuantity} : UpdateCartItem("p1", q)
    \/ RemoveFromCart("p1")
    \/ ClearCart
    \/ \E c \in Clients : GetCartCache(c)
    \/ \E c \in Clients : GetCartStore(c)
    \/ \E c \in Clients : GetCartSetex(c)
    \/ \E c \in Clients : GetCartAnswered(c)
    \/ CacheExpires

SpecCart == Init /\ [][CartNext]_vars

\* a service that connects the shared client, subscribes one queue and
\* closes, with the broker delivering to it
ClientNext ==
    \/ \E ok \in BOOLEAN : ClientConnect(ok)
    \/ \E ok \in BOOLEAN : ReconnectTimerFires(ok)
    \/ ConnectionDrops
    \/ ClientSubscribe(SharedQueue)
    \/ ClientClose
    \/ \E f \in FactInputs : PublishFact(f)
    \/ DeliverToSubscriber(SharedQueue)
    \/ \E i \in 1..MaxDeliveries : HandlerReturns(SharedQueue, i)
    \/ \E i \in 1..MaxDeliveries : HandlerThrows(SharedQueue, i)
    \/ \E i \in 1..MaxDeliveries : SettleOnChannel(SharedQueue, i)
    \/ \E i \in 1..MaxDeliveries : AckOnClosedChannel(SharedQueue, i)

SpecClient == Init /\ [][ClientNext]_vars

\* a Date before the first instant of the service's clock
Earlier == -1

\* payment-service holding one payment that was initiated for 80 and
\* confirmed with success earlier
PaymentInit ==
    /\ orders = << >>
    /\ payments = <<ConfirmedPayment(NewPayment("o1", "u1", 80, "card"),
                                     Undefined, TRUE, 1, Earlier)>>
    /\ orderNow = 1
    /\ paymentNow = 1
    /\ productNow = 1
    /\ txnSeq = 1
    /\ response = NoResponse
    /\ products = << >>
    /\ channel = "null"
    /\ published = << >>
    /\ ready = [q \in Queues |-> << >>]
    /\ deliveries = [q \in Queues |-> << >>]
    /\ answers = [c \in Clients |-> NoAnswer]
    /\ facts = << >>
    /\ FlowInit

\* the routes of payment-service
PaymentNext ==
    \/ ReceiveResponse
    \/ \E b \in InitiateBodies :
            InitiatePayment(b.orderId, b.userId, b.amount, b.method)
    \/ \E id \in IdInputs(payments, MaxPayments), e \in EvidenceInputs, ok \in BOOLEAN :
            ConfirmPayment(id, e, ok)
    \/ \E id \in IdInputs(payments, MaxPayments), a \in RefundAmountInputs, r \in ReasonInputs :
            RefundPayment(id, a, r)

SpecPayment == PaymentInit /\ [][PaymentNext]_vars

\* the answers to the requests handleCheckout is waiting for
CheckoutAnswered ==
    \/ \E a \in AnswerInputs : OrderAnswered(a)
    \/ \E a \in AnswerInputs : InitiateAnswered(a)
    \/ \E a \in ProcessAnswers : ProcessAnswered(a)
    \/ ProcessThrown
    \/ \E a \in AnswerInputs : ReceiptAnswered(a)

\* the checkout page, the services it calls and the cart service
CheckoutNext ==
    \/ \E m \in CheckoutMethodInputs, c \in CardInputs : HandleCheckout(m, c)
    \/ \E a \in AnswerInputs : OrderAnswered(a)
    \/ \E a \in AnswerInputs : InitiateAnswered(a)
    \/ \E a \in ProcessAnswers : ProcessAnswered(a)
    \/ ProcessThrown
    \/ \E a \in AnswerInputs : ReceiptAnswered(a)
    \/ OpenCheckout
    \/ AddToCart("p1", 1)
    \/ ClearCart

SpecCheckout == Init /\ [][CheckoutNext]_vars

\* every awaited request is answered or its promise rejects
SpecCheckoutFair == SpecCheckout /\ WF_vars(CheckoutAnswered)

(* ========================== properties ================================= *)
\* the step is the handler of request `op` on document `id` answering
Handled(op, id) ==
    /\ response = NoResponse
    /\ response'.op = op
    /\ response'.id = id

\* the order transition table of the specification, in the stored spellings
OrderTransitionTable ==
    { <<"Pending", "Pending Payment">>, <<"Pending", "Confirmed">>,
      <<"Pending Payment", "Confirmed">>, <<"Pending Payment", "Cancelled">>,
      <<"Confirmed", "Processing">>, <<"Processing", "Shipped">>,
      <<"Shipped", "Out for Delivery">>, <<"Out for Delivery", "Delivered">>,
      <<"Pending", "Cancelled">>, <<"Confirmed", "Cancelled">>,
      <<"Processing", "Cancelled">>, <<"Delivered", "Refunded">> }

\* C1: a status update either requests a transition of the table, or is
\* answered 409 and leaves the order's status as it was.
C1_UpdateFollowsTable ==
    [][\A id \in 1..Len(orders) :
          Handled("updateStatus", id) =>
             \/ <<orders[id].status, orders'[id].status>> \in OrderTransitionTable
             \/ /\ response'.code = 409
                /\ orders'[id].status = orders[id].status]_vars

\* C2: every stored order's status is one of the nine defined values.
C2_StatusDefined ==
    \A id \in 1..Len(orders) : orders[id].status \in OrderStatuses

\* the statuses from which the specification refuses a cancel
NotCancellable ==
    {"Shipped", "Out for Delivery", "Delivered", "Cancelled", "Refunded"}

\* C3: a cancel of an order that is Shipped, Out for Delivery, Delivered,
\* Cancelled or Refunded is answered 400 and leaves status, cancelledAt and
\* cancellationReason unchanged.
C3_CancelRejected ==
    [][\A id \in 1..Len(orders) :
          (Handled("cancel", id) /\ orders[id].status \in NotCancellable) =>
             /\ response'.code = 400
             /\ orders'[id].status = orders[id].status
             /\ orders'[id].cancelledAt = orders[id].cancelledAt
             /\ orders'[id].cancellationReason = orders[id].cancellationReason]_vars

\* C4: every stored order has totalAmount = subtotal - discount + tax +
\* shipping over its own fields; tax is 18% of the subtotal rounded to the
\* nearest unit; shipping is 0 above the free-shipping threshold and the
\* flat fee otherwise.
C4_TotalFormula ==
    \A id \in 1..Len(orders) :
        LET o == orders[id]
        IN  /\ o.totalAmount = o.subtotal - o.discount + o.tax + o.shippingCost
            /\ 100 * o.tax > TaxRatePercent * o.subtotal - 50
            /\ 100 * o.tax <= TaxRatePercent * o.subtotal + 50
            /\ o.subtotal > FreeShippingThreshold => o.shippingCost = 0
            /\ o.subtotal <= FreeShippingThreshold => o.shippingCost = ShippingFee

\* C4 witness: one created order above the free-shipping threshold and one
\* below it with a tax that had to be rounded.
C4_Witness ==
    /\ \E id \in 1..Len(orders) : orders[id].subtotal > FreeShippingThreshold
    /\ \E id \in 1..Len(orders) :
          /\ orders[id].subtotal \in 1..FreeShippingThreshold
          /\ 100 * orders[id].tax # TaxRatePercent * orders[id].subtotal

\* the amounts and line items fixed when the order is created
Frozen(o) ==
    <<o.totalAmount, o.subtotal, o.tax, o.shippingCost, o.discount, o.items>>

\* C5: no step changes an existing order's totalAmount, subtotal, tax,
\* shipping cost, discount or line items.
C5_TotalsFrozen ==
    [][\A id \in 1..Len(orders) :
          /\ id \in 1..Len(orders')
          /\ Frozen(orders'[id]) = Frozen(orders[id])]_vars

\* C5 witness: an order that was shipped by a status update and then
\* cancelled still carries the totals it was created with.
C5_Witness ==
    \E id \in 1..Len(orders) :
        /\ orders[id].shippedAt # NoDate
        /\ orders[id].cancelledAt # NoDate
        /\ orders[id].totalAmount > 0

\* C6: no stored order has an empty items list.
C6_NoEmptyOrder ==
    \A id \in 1..Len(orders) : orders[id].items # << >>

\* C7: the step that creates an order stores it Confirmed when its payment
\* method is cash on delivery and Pending Payment when it is any other
\* accepted method.
C7_InitialStatus ==
    [][Len(orders') > Len(orders) =>
          LET o == orders'[Len(orders')]
          IN  /\ o.paymentMethod \in OrderPaymentMethods
              /\ o.paymentMethod = "cod" => o.status = "Confirmed"
              /\ o.paymentMethod # "cod" => o.status = "Pending Payment"]_vars

\* C7 witness: createOrder has just answered 201 for a wallet order that
\* is Pending Payment, next to a cash-on-delivery order that is Confirmed.
C7_Witness ==
    /\ response.op = "createOrder" /\ response.code = 201
    /\ orders[response.id].paymentMethod = "wallet"
    /\ orders[response.id].status = "Pending Payment"
    /\ \E id \in 1..Len(orders) :
          orders[id].paymentMethod = "cod" /\ orders[id].status = "Confirmed"

\* payment statuses that are not terminal
NonTerminalPayment == {"initiated", "processing"}

\* C8: at most one non-terminal Payment exists per orderId.
C8_OneOpenPaymentPerOrder ==
    \A i, j \in 1..Len(payments) :
        (/\ payments[i].orderId = payments[j].orderId
         /\ payments[i].status \in NonTerminalPayment
         /\ payments[j].status \in NonTerminalPayment) => i = j

\* C9: a confirm never sets a Payment that is already Completed to
\* Completed again.
C9_CompletedOnce ==
    [][\A id \in 1..Len(payments) :
          (Handled("confirm", id) /\ payments[id].status = "completed") =>
             ~(/\ payments'[id].status = "completed"
               /\ payments'[id] # payments[id])]_vars

\* C10: a second confirm with the evidence the Payment was already confirmed
\* with leaves the Payment's status and gateway record as the first left them.
C10_ConfirmIdempotent ==
    [][\A id \in 1..Len(payments) :
          (/\ Handled("confirm", id)
           /\ payments[id].gatewayResponse # NoGatewayResponse
           /\ payments'[id].gatewayResponse.evidence
                = payments[id].gatewayResponse.evidence) =>
             /\ payments'[id].status = payments[id].status
             /\ payments'[id].gatewayResponse = payments[id].gatewayResponse]_vars

\* C11: a confirm that moves a Payment to completed publishes a
\* payment.completed fact with its orderId, paymentId and amount, and a
\* confirm that moves it to failed publishes a payment.failed fact with its
\* orderId and paymentId.
C11_ConfirmPublishes ==
    [][\A id \in 1..Len(payments) :
          (/\ Handled("confirm", id)
           /\ response'.code = 200
           /\ payments'[id].status # payments[id].status) =>
             /\ Len(published') = Len(published) + 1
             /\ LET fact == published'[Len(published')]
                IN  /\ fact.routingKey = "payment." \o payments'[id].status
                    /\ fact.data.paymentId = id
                    /\ fact.data.orderId = payments[id].orderId]_vars

\* C12: a refund of a Payment that is not completed is answered 400 and
\* leaves its status, refundAmount, refundReason and refundedAt as they
\* were; a refund answered 200 found the Payment completed and leaves it
\* refunded.
C12_RefundOnlyFromCompleted ==
    [][\A id \in 1..Len(payments) :
          Handled("refund", id) =>
             /\ payments[id].status # "completed" =>
                   /\ response'.code = 400
                   /\ payments'[id].status = payments[id].status
                   /\ payments'[id].refundAmount = payments[id].refundAmount
                   /\ payments'[id].refundReason = payments[id].refundReason
                   /\ payments'[id].refundedAt = payments[id].refundedAt
             /\ response'.code = 200 =>
                   /\ payments[id].status = "completed"
                   /\ payments'[id].status = "refunded"]_vars

\* C12 witness: a second refund of a Payment that the first refund left
\* refunded has just been answered 400.
C12_Witness ==
    /\ response.op = "refund" /\ response.code = 400
    /\ response.id \in 1..Len(payments)
    /\ payments[response.id].status = "refunded"
    /\ payments[response.id].refundedAt # NoDate

\* C13: a refunded Payment records a refundAmount of at most its amount.
C13_RefundWithinAmount ==
    \A id \in 1..Len(payments) :
        payments[id].status = "refunded" =>
            payments[id].refundAmount <= payments[id].amount

\* one step of the payment state machine of the specification
PaymentMachine ==
    { <<"initiated", "processing">>, <<"processing", "completed">>,
      <<"processing", "failed">>, <<"completed", "refunded">>,
      <<"initiated", "cancelled">>, <<"processing", "cancelled">> }

\* a status reached from another by one or more steps of the machine
PaymentMachinePaths ==
    PaymentMachine \cup
    { <<"initiated", "completed">>, <<"initiated", "failed">>,
      <<"initiated", "refunded">>, <<"processing", "refunded">> }

\* everything of a Payment but its status and refund fields
PaymentCore(p) ==
    <<p.orderId, p.userId, p.amount, p.currency, p.method, p.gatewayResponse>>

\* C14: a Payment's status changes only along the payment state machine,
\* and a completed Payment changes in nothing but its status and refund
\* fields.
C14_PaymentMachine ==
    [][\A id \in 1..Len(payments) :
          /\ payments'[id].status # payments[id].status =>
                <<payments[id].status, payments'[id].status>> \in PaymentMachinePaths
          /\ payments[id].status = "completed" =>
                PaymentCore(payments'[id]) = PaymentCore(payments[id])]_vars

\* C15: every stored product has a quantity of at least 0.
C15_QuantityNonNegative ==
    \A id \in 1..Len(products) : products[id].quantity >= 0

\* C19: with the channel open, a decrement that is answered 200 and leaves
\* a quantity between 0 and the low-stock threshold publishes an
\* inventory.low fact with the productId and the new quantity.
C19_LowStockPublished ==
    [][\A id \in 1..Len(products) :
          (/\ Handled("updateInventory", id)
           /\ response'.code = 200
           /\ channel = "open"
           /\ products'[id].quantity < products[id].quantity
           /\ products'[id].quantity \in 0..products'[id].lowStockThreshold) =>
             /\ Len(published') = Len(published) + 1
             /\ LET fact == published'[Len(published')]
                IN  /\ fact.routingKey = "inventory.low"
                    /\ fact.data.productId = id
                    /\ fact.data.quantity = products'[id].quantity]_vars

\* every client's inventory request is being handled and none is answered yet
InFlightTogether == \A c \in Clients : answers[c].state \in {"pending", "updated"}

\* the clients whose decrement was applied
Succeeded == {c \in Clients : answers[c].state \in {"updated", "answered"}}

\* the clients whose request has been answered
Answered == {c \in Clients : answers[c].state = "answered"}

\* the inventory.insufficient facts published so far
Insufficient ==
    {i \in 1..Len(published) : published[i].routingKey = "inventory.insufficient"}

\* C16: while the clients' decrements of one unit each are being handled
\* together on the product that had one unit left, no more than one of them
\* has been applied, and when all are answered every one that was not
\* applied was answered with an inventory.insufficient fact.
C16_ConcurrentDecrements ==
    /\ InFlightTogether =>
          Cardinality(Succeeded) * OrderQty <= BrokerProducts[1].quantity
    /\ Answered = Clients =>
          Cardinality(Insufficient) = MaxClients - Cardinality(Succeeded)

\* C17: the step in which the inventory consumer acknowledges an
\* order.created fact has, for every line item, either taken the ordered
\* quantity off a sufficient stock or published inventory.insufficient for
\* the order and the product.
C17_ConsumerOutcome ==
    [][(/\ Len(deliveries'[ProductQueue]) = Len(deliveries[ProductQueue]) + 1
        /\ deliveries'[ProductQueue][Len(deliveries'[ProductQueue])].settled = "ack") =>
          LET content ==
                deliveries'[ProductQueue][Len(deliveries'[ProductQueue])].message.content
          IN  \A k \in 1..Len(content.items) :
                LET item == content.items[k]
                    stock == products[item.productId].quantity
                IN  \/ /\ stock >= item.quantity
                       /\ products'[item.productId].quantity = stock - item.quantity
                    \/ /\ stock < item.quantity
                       /\ Len(published') > Len(published)
                       /\ published'[Len(published')].routingKey = "inventory.insufficient"
                       /\ published'[Len(published')].data.orderId = content.orderId
                       /\ published'[Len(published')].data.productId = item.productId]_vars

\* only the first client, who orders as order 1, has touched the stock
OnlyFirstOrder == \A c \in Clients \ {1} : answers[c].state = "idle"

\* C18: when an order.cancelled or payment.failed fact for order 1 is
\* published after the stock was decremented for that order, the product's
\* quantity is back at its value before the decrement, or the fact waits in
\* the inventory consumer's queue to be dealt with.
C18_CreditedBackOnce ==
    [][(/\ answers[1].state = "answered" /\ answers[1].code = 200
        /\ OnlyFirstOrder
        /\ Len(facts') = Len(facts) + 1
        /\ facts'[Len(facts')].routingKey \in {"order.cancelled", "payment.failed"}
        /\ facts'[Len(facts')].content.orderId = 1) =>
          \/ products'[1].quantity = BrokerProducts[1].quantity
          \/ \E i \in 1..Len(ready'[ProductQueue]) :
                ready'[ProductQueue][i].routingKey = facts'[Len(facts')].routingKey]_vars

\* C20: every acknowledged delivery had a content that parsed and a handler
\* that had returned; a delivery whose content did not parse or whose
\* handler threw is not acknowledged.
C20_AckAfterHandler ==
    \A q \in Queues : \A i \in 1..Len(deliveries[q]) :
        LET d == deliveries[q][i]
        IN  /\ d.settled = "ack" => (Parses(d.message.content) /\ d.handler = "completed")
            /\ (~Parses(d.message.content) \/ d.handler = "threw") => d.settled # "ack"

\* C20 witness: a generic subscriber has nacked a delivery whose handler
\* threw and acknowledged one whose handler returned, and the product
\* consumer has nacked a content that did not parse.
C20_Witness ==
    /\ \E q \in {SharedQueue, AuthQueue} :
          /\ \E i \in 1..Len(deliveries[q]) :
                deliveries[q][i].handler = "completed" /\ deliveries[q][i].settled = "ack"
          /\ \E i \in 1..Len(deliveries[q]) :
                deliveries[q][i].handler = "threw" /\ deliveries[q][i].settled = "nack"
    /\ \E i \in 1..Len(deliveries[ProductQueue]) :
          /\ ~Parses(deliveries[ProductQueue][i].message.content)
          /\ deliveries[ProductQueue][i].settled = "nack"

\* C23: every message handed to the broker carries a correlationId, a
\* timestamp and its source service.
C23_Envelope ==
    \A i \in 1..Len(published) :
        {"correlationId", "timestamp", "source"} \subseteq DOMAIN published[i]

\* C24: a step that commits a product create, a product update or an
\* inventory update that leaves the stock low publishes its fact in the
\* same step.
C24_FactWithChange ==
    [][\A op \in {"createProduct", "updateProduct", "updateInventory"} :
          \A id \in 1..Len(products') :
             (/\ Handled(op, id)
              /\ response'.code \in {200, 201}
              /\ op = "updateInventory" => LowStock(products'[id])) =>
                Len(published') = Len(published) + 1]_vars

\* C30: no step changes the status, cancelledAt or cancellationReason of an
\* order that is Cancelled.
C30_CancelledTerminal ==
    [][\A id \in 1..Len(orders) :
          orders[id].status = "Cancelled" =>
             /\ orders'[id].status = "Cancelled"
             /\ orders'[id].cancelledAt = orders[id].cancelledAt
             /\ orders'[id].cancellationReason = orders[id].cancellationReason]_vars

\* the deliveries queue q has made of the fact at position f
DeliveriesOf(q, f) ==
    {i \in 1..Len(deliveries[q]) : deliveries[q][i].message.fact = f}

\* C21: no message is delivered to its consumer more than twice.
C21_DeliveredAtMostTwice ==
    \A q \in Queues : \A f \in 1..Len(facts) :
        Cardinality(DeliveriesOf(q, f)) <= 2

\* C22: a consumer runs the handler of one message to completion at most
\* once: a delivery of a message it has already applied does not apply it
\* again.
C22_AppliedOnce ==
    \A q \in Queues : \A f \in 1..Len(facts) :
        Cardinality({i \in DeliveriesOf(q, f) :
                        deliveries[q][i].handler = "completed"}) <= 1

\* C29: the cancel handler writes Cancelled only over an order that is not
\* Shipped, Out for Delivery or Delivered at the time of the write: a cancel
\* that loses the race against the status update changes nothing.
C29_OneWinner ==
    [][\A c \in Clients :
          (cancelling[c].state = "read" /\ cancelling'[c].state = "answered") =>
              ~CancelRefused(orders[cancelling[c].id].status)]_vars

\* handleCheckout has returned after a failed step with order o created
CheckoutFailedOn(o) ==
    /\ checkout.pc = "idle"
    /\ checkout.orderId = o
    /\ o \in 1..Len(orders)

\* C25: an order that is Pending Payment when a later step of its checkout
\* has failed is eventually Cancelled.
C25_FailedCheckoutCancels ==
    \A o \in 1..MaxOrders :
        (CheckoutFailedOn(o) /\ orders[o].status = "Pending Payment")
            ~> (o \in 1..Len(orders) /\ orders[o].status = "Cancelled")

\* the step is handleCheckout finishing with "Payment successful!"
CheckoutSucceeds ==
    /\ checkout.pc = "receipt"
    /\ checkout'.pc = "left"
    /\ checkout'.toast = "Payment successful!"

\* C26: when a checkout whose payment completed finishes, its order is
\* Confirmed, a receipt exists for its payment and the customer's cart in
\* the cart service is empty.
C26_SuccessfulCheckout ==
    [][CheckoutSucceeds =>
          /\ orders'[checkout.orderId].status = "Confirmed"
          /\ \E i \in 1..Len(receipts') : receipts'[i].paymentId = checkout.paymentId
          /\ cart' = << >>]_vars

\* C27: every POST /receipts for a payment comes after an answer of
\* POST /payments/process that reports this payment completed.
C27_ReceiptAfterCompleted ==
    \A i \in 1..Len(calls) :
        (calls[i].kind = "request" /\ calls[i].url = "/receipts") =>
            \E j \in 1..(i - 1) :
                /\ calls[j].kind = "response"
                /\ calls[j].url = "/payments/process"
                /\ calls[j].paymentId = calls[i].paymentId
                /\ calls[j].success
                /\ calls[j].status = "completed"

\* a receipt for the second payment has been requested and created, after
\* the first payment failed without a receipt request
C27_Witness ==
    /\ Len(payments) = 2
    /\ payments[1].status = "failed"
    /\ payments[2].status = "completed"
    /\ receipts = <<[paymentId |-> 2]>>
    /\ \E i \in 1..Len(calls) :
          calls[i] = Request("/receipts", 2)

\* C28: handleCheckout sends POST /payments/initiate only for an order
\* that is Pending Payment, never for a cash-on-delivery order.
C28_InitiateOnlyOnline ==
    [][(checkout.pc = "order" /\ checkout'.pc = "initiate") =>
          /\ orders'[checkout'.orderId].status = "Pending Payment"
          /\ checkout'.paymentMethod # "cash_on_delivery"]_vars

\* the orderId a client sends to payment-service for the order stored at
\* position id
OrderIdOf(id) == IF id = 1 THEN "o1" ELSE IF id = 2 THEN "o2" ELSE "o3"

\* C31: an order with status Refunded has a Payment, initiated for it, with
\* status refunded.
C31_RefundedWithPayment ==
    \A id \in 1..Len(orders) :
        orders[id].status = "Refunded" =>
            \E p \in 1..Len(payments) :
                /\ payments[p].orderId = OrderIdOf(id)
                /\ payments[p].status = "refunded"

\* C32: an initiate that creates a Payment for a stored order creates it
\* with an amount of at most that order's totalAmount.
C32_AmountWithinTotal ==
    [][\A p \in 1..Len(payments') :
          (Handled("initiate", p) /\ response'.code = 201) =>
              \A id \in 1..Len(orders) :
                  payments'[p].orderId = OrderIdOf(id) =>
                      payments'[p].amount <= orders[id].totalAmount]_vars

\* C35: a product whose quantity is 0 has status 'Out of Stock'.
C35_OutOfStockAtZero ==
    \A id \in 1..Len(products) :
        products[id].quantity = 0 => products[id].status = "Out of Stock"

\* C37: an order in status Confirmed, Shipped, Delivered or Cancelled has
\* confirmedAt, shippedAt, deliveredAt or cancelledAt set, respectively.
C37_TimestampOfStatus ==
    \A id \in 1..Len(orders) :
        /\ orders[id].status = "Confirmed" => orders[id].confirmedAt # NoDate
        /\ orders[id].status = "Shipped" => orders[id].shippedAt # NoDate
        /\ orders[id].status = "Delivered" => orders[id].deliveredAt # NoDate
        /\ orders[id].status = "Cancelled" => orders[id].cancelledAt # NoDate

RECURSIVE SumQuantityTimesPrice(_)
\* the sum over the line items of quantity x unit price
SumQuantityTimesPrice(items) ==
    IF items = << >> THEN 0
    ELSE Head(items).quantity * Head(items).price + SumQuantityTimesPrice(Tail(items))

\* C39: every stored order's subtotal is the sum over its line items of
\* quantity x unit price.
C39_SubtotalFromLines ==
    \A id \in 1..Len(orders) :
        orders[id].subtotal = SumQuantityTimesPrice(orders[id].items)

\* C38: a refund call succeeds only on a Payment that was never refunded
\* before, so at most one refund succeeds per Payment.
C38_RefundedOnce ==
    [][\A id \in 1..Len(payments) :
          (Handled("refund", id) /\ response'.code = 200) =>
              payments[id].refundedAt = NoDate]_vars

\* C36: when no GET cart request is in flight, the cached cart is absent
\* or equal to the cart in the store.
C36_CacheNotStale ==
    (\A c \in Clients : gets[c].state \in {"idle", "answered"}) =>
        (cache.present => cache.products = cart)

\* C33: whenever the client is connected, every subscription it registered
\* is consuming: its consumer sits on the client's current channel, so a
\* message routed to its queue gets delivered.
C33_SubscriptionsSurviveReconnect ==
    \A q \in Queues :
        (client.connected /\ consumers[q] # 0) => Consuming(q)

\* C34: once close() has returned the client is not connected again.
C34_StaysClosed ==
    client.closed => ~client.connected

====
